---- MODULE Spec2Model ----
\* Model of rorm-sql's entry points (src/src/lib.rs, impl DBImpl).
\* Every entry point is a pure constructor: it takes the dialect value `self`
\* and its arguments and returns a freshly filled builder.  A behaviour of the
\* model is one request: Init draws the dialect and the arguments, and the
\* action of the requested entry point stores the builder it returns.
\* All three cargo features (sqlite, postgres, mysql) are taken as enabled.
EXTENDS Integers, Sequences, FiniteSets

VARIABLES self, request, builder

vars == <<self, request, builder>>

\* ---------------------------------------------------------------- bounds
MaxAnn == 3      \* longest annotation list passed to create_column
MaxCols == 2     \* longest column list / widest value row
MaxRows == 2     \* most rows passed to insert

\* ---------------------------------------------------------------- domains
\* enum DBImpl { SQLite, Postgres, MySQL }
DBImpl == {"SQLite", "Postgres", "MySQL"}

\* Option<T>: None is the empty sequence, Some(x) the one-element sequence.
None == <<>>
Some(x) == <<x>>

\* rorm_declaration::imr::Annotation values: a discriminant and a payload.
PrimaryKey == [tag |-> "PrimaryKey", arg |-> 0]
AnnotationSet ==
    { PrimaryKey,
      [tag |-> "NotNull", arg |-> 0],
      [tag |-> "AutoIncrement", arg |-> 0],
      [tag |-> "MaxLength", arg |-> 1],
      [tag |-> "MaxLength", arg |-> 2] }

DbTypeSet == {"VarChar", "Int64"}
Names == {"users", "t"}
ValueSet == {"Null", "I32(1)"}
PointInTimeSet == {None, Some("After"), Some("Before"), Some("InsteadOf")}
TriggerOperationSet == {"Insert", "Update", "Delete"}
AlterTableOperationSet == {"RenameTo", "DropColumn"}

SeqUpTo(S, n) == UNION { [1..k -> S] : k \in 0..n }

\* OnConflict::ABORT, the policy constant used by insert and update.
ABORT == "ABORT"

\* the value of `builder` before the entry point has returned
NoBuilder == [impl |-> "none"]

\* ---------------------------------------------------------------- helpers
\* Annotation::eq_shallow: equality of the discriminants only.
eq_shallow(x, y) == x.tag = y.tag

\* SQLAnnotation { annotation: x }
SQLAnnotation(x) == [annotation |-> x]

\* `for x in annotations { if cond(x) { a.push(SQLAnnotation{annotation: x}) } }`
RECURSIVE PushLoop(_, _, _)
PushLoop(a, annotations, wantPk) ==
    IF annotations = <<>> THEN a
    ELSE LET x == Head(annotations)
         IN  PushLoop(IF eq_shallow(x, PrimaryKey) = wantPk
                        THEN Append(a, SQLAnnotation(x))
                        ELSE a,
                      Tail(annotations), wantPk)

\* mutant: the annotations are wrapped in input order, without the two passes
SortAnnotations_Unsorted(annotations) ==
    [i \in 1..Len(annotations) |-> SQLAnnotation(annotations[i])]

\* "Sort the annotations": one pass pushing the PrimaryKey annotations, then
\* one pass pushing all the others.
SortAnnotations(annotations) ==
    PushLoop(PushLoop(<<>>, annotations, TRUE), annotations, FALSE)

\* ---------------------------------------------------------------- entry points
\* mutant: the MySQL and Postgres arms are swapped
create_table_Swapped(db, name) ==
    [impl |-> "CreateTableImpl",
     variant |-> CASE db = "SQLite" -> "SQLite"
                   [] db = "MySQL" -> "Postgres"
                   [] db = "Postgres" -> "MySQL",
     data |-> [name |-> name, columns |-> <<>>, if_not_exists |-> FALSE,
               lookup |-> <<>>, statements |-> <<>>]]

create_table(db, name) ==
    [impl |-> "CreateTableImpl",
     variant |-> CASE db = "SQLite" -> "SQLite"
                   [] db = "MySQL" -> "MySQL"
                   [] db = "Postgres" -> "Postgres",
     data |-> [name |-> name, columns |-> <<>>, if_not_exists |-> FALSE,
               lookup |-> <<>>, statements |-> <<>>]]

\* create_trigger never reads `self`: the SQLCreateTrigger it returns has no
\* dialect variant.
create_trigger(db, name, table_name, point_in_time, operation) ==
    [impl |-> "SQLCreateTrigger",
     data |-> [name |-> name, table_name |-> table_name,
               if_not_exists |-> FALSE, point_in_time |-> point_in_time,
               operation |-> operation, statements |-> <<>>,
               for_each_row |-> FALSE]]

\* mutant: the index starts out UNIQUE
create_index_Unique(db, name, table_name) ==
    [impl |-> "CreateIndexImpl",
     variant |-> CASE db = "SQLite" -> "Sqlite"
                   [] db = "MySQL" -> "MySQL"
                   [] db = "Postgres" -> "Postgres",
     data |-> [name |-> name, table_name |-> table_name, unique |-> TRUE,
               if_not_exists |-> FALSE, columns |-> <<>>, condition |-> None]]

create_index(db, name, table_name) ==
    [impl |-> "CreateIndexImpl",
     variant |-> CASE db = "SQLite" -> "Sqlite"
                   [] db = "MySQL" -> "MySQL"
                   [] db = "Postgres" -> "Postgres",
     data |-> [name |-> name, table_name |-> table_name, unique |-> FALSE,
               if_not_exists |-> FALSE, columns |-> <<>>, condition |-> None]]

\* mutant: the MySQL arm returns the SQLite variant
drop_table_MySQLAsSQLite(db, name) ==
    [impl |-> "DropTableImpl",
     variant |-> CASE db = "SQLite" -> "SQLite"
                   [] db = "MySQL" -> "SQLite"
                   [] db = "Postgres" -> "Postgres",
     data |-> [name |-> name, if_exists |-> FALSE]]

drop_table(db, name) ==
    [impl |-> "DropTableImpl",
     variant |-> CASE db = "SQLite" -> "SQLite"
                   [] db = "MySQL" -> "MySQL"
                   [] db = "Postgres" -> "Postgres",
     data |-> [name |-> name, if_exists |-> FALSE]]

alter_table(db, name, operation) ==
    [impl |-> "AlterTableImpl",
     variant |-> CASE db = "SQLite" -> "SQLite"
                   [] db = "MySQL" -> "MySQL"
                   [] db = "Postgres" -> "Postgres",
     data |-> [name |-> name, operation |-> operation,
               lookup |-> <<>>, statements |-> <<>>]]

\* The sorted list `a` is stored by the SQLite arm only; the MySQL and the
\* Postgres arm store an empty list.  CreateColumnMySQLData has no table_name,
\* CreateColumnPostgresData has no lookup.
create_column(db, table_name, name, data_type, annotations) ==
    LET a == SortAnnotations(annotations)
    IN  CASE db = "SQLite" ->
               [impl |-> "CreateColumnImpl", variant |-> "SQLite",
                data |-> [name |-> name, table_name |-> table_name,
                          data_type |-> data_type, annotations |-> a,
                          statements |-> None, lookup |-> None]]
          [] db = "MySQL" ->
               [impl |-> "CreateColumnImpl", variant |-> "MySQL",
                data |-> [name |-> name, data_type |-> data_type,
                          annotations |-> <<>>,
                          statements |-> None, lookup |-> None]]
          [] db = "Postgres" ->
               [impl |-> "CreateColumnImpl", variant |-> "Postgres",
                data |-> [name |-> name, table_name |-> table_name,
                          data_type |-> data_type, annotations |-> <<>>,
                          statements |-> None]]

\* mutant: the result columns are not taken over
select_NoColumns(db, columns, from_clause) ==
    [impl |-> "SelectImpl",
     variant |-> CASE db = "SQLite" -> "SQLite"
                   [] db = "MySQL" -> "MySQL"
                   [] db = "Postgres" -> "Postgres",
     data |-> [resulting_columns |-> <<>>, limit |-> None, offset |-> None,
               from_clause |-> from_clause, where_clause |-> None,
               distinct |-> FALSE, lookup |-> <<>>]]

select(db, columns, from_clause) ==
    [impl |-> "SelectImpl",
     variant |-> CASE db = "SQLite" -> "SQLite"
                   [] db = "MySQL" -> "MySQL"
                   [] db = "Postgres" -> "Postgres",
     data |-> [resulting_columns |-> columns, limit |-> None, offset |-> None,
               from_clause |-> from_clause, where_clause |-> None,
               distinct |-> FALSE, lookup |-> <<>>]]

\* mutant: the rows are not taken over
insert_NoRows(db, into_clause, insert_columns, insert_values) ==
    [impl |-> "InsertImpl",
     variant |-> CASE db = "SQLite" -> "SQLite"
                   [] db = "MySQL" -> "MySQL"
                   [] db = "Postgres" -> "Postgres",
     data |-> [into_clause |-> into_clause, columns |-> insert_columns,
               row_values |-> <<>>, lookup |-> <<>>,
               on_conflict |-> ABORT]]

insert(db, into_clause, insert_columns, insert_values) ==
    [impl |-> "InsertImpl",
     variant |-> CASE db = "SQLite" -> "SQLite"
                   [] db = "MySQL" -> "MySQL"
                   [] db = "Postgres" -> "Postgres",
     data |-> [into_clause |-> into_clause, columns |-> insert_columns,
               row_values |-> insert_values, lookup |-> <<>>,
               on_conflict |-> ABORT]]

\* mutant: the table name is pre-loaded into the parameter lookup
delete_Preloaded(db, table_name) ==
    [impl |-> "DeleteImpl",
     variant |-> CASE db = "SQLite" -> "SQLite"
                   [] db = "MySQL" -> "MySQL"
                   [] db = "Postgres" -> "Postgres",
     data |-> [model |-> table_name, lookup |-> <<table_name>>,
               where_clause |-> None]]

delete(db, table_name) ==
    [impl |-> "DeleteImpl",
     variant |-> CASE db = "SQLite" -> "SQLite"
                   [] db = "MySQL" -> "MySQL"
                   [] db = "Postgres" -> "Postgres",
     data |-> [model |-> table_name, lookup |-> <<>>,
               where_clause |-> None]]

\* mutant: the update starts with another conflict policy
update_Rollback(db, table_name) ==
    [impl |-> "UpdateImpl",
     variant |-> CASE db = "SQLite" -> "SQLite"
                   [] db = "MySQL" -> "MySQL"
                   [] db = "Postgres" -> "Postgres",
     data |-> [model |-> table_name, on_conflict |-> "ROLLBACK",
               updates |-> <<>>, where_clause |-> None, lookup |-> <<>>]]

update(db, table_name) ==
    [impl |-> "UpdateImpl",
     variant |-> CASE db = "SQLite" -> "SQLite"
                   [] db = "MySQL" -> "MySQL"
                   [] db = "Postgres" -> "Postgres",
     data |-> [model |-> table_name, on_conflict |-> ABORT,
               updates |-> <<>>, where_clause |-> None, lookup |-> <<>>]]

\* The entry point a request names, applied to dialect db.
Call(db, r) ==
    CASE r.op = "create_table" -> create_table(db, r.name)
      [] r.op = "create_trigger" ->
           create_trigger(db, r.name, r.table_name, r.point_in_time, r.operation)
      [] r.op = "create_index" -> create_index(db, r.name, r.table_name)
      [] r.op = "drop_table" -> drop_table(db, r.name)
      [] r.op = "alter_table" -> alter_table(db, r.name, r.operation)
      [] r.op = "create_column" ->
           create_column(db, r.table_name, r.name, r.data_type, r.annotations)
      [] r.op = "select" -> select(db, r.columns, r.from_clause)
      [] r.op = "insert" ->
           insert(db, r.into_clause, r.insert_columns, r.insert_values)
      [] r.op = "delete" -> delete(db, r.table_name)
      [] r.op = "update" -> update(db, r.table_name)

\* ---------------------------------------------------------------- state machine
Init ==
    /\ self \in DBImpl
    /\ builder = NoBuilder
    /\ \/ \E name \in Names : request = [op |-> "create_table", name |-> name]
       \/ \E name \in Names, table_name \in Names,
             point_in_time \in PointInTimeSet, operation \in TriggerOperationSet :
            request = [op |-> "create_trigger", name |-> name,
                       table_name |-> table_name,
                       point_in_time |-> point_in_time, operation |-> operation]
       \/ \E name \in Names, table_name \in Names :
            request = [op |-> "create_index", name |-> name,
                       table_name |-> table_name]
       \/ \E name \in Names : request = [op |-> "drop_table", name |-> name]
       \/ \E name \in Names, operation \in AlterTableOperationSet :
            request = [op |-> "alter_table", name |-> name,
                       operation |-> operation]
       \/ \E table_name \in Names, name \in Names, data_type \in DbTypeSet,
             annotations \in SeqUpTo(AnnotationSet, MaxAnn) :
            request = [op |-> "create_column", table_name |-> table_name,
                       name |-> name, data_type |-> data_type,
                       annotations |-> annotations]
       \/ \E columns \in SeqUpTo(Names, MaxCols), from_clause \in Names :
            request = [op |-> "select", columns |-> columns,
                       from_clause |-> from_clause]
       \/ \E into_clause \in Names, insert_columns \in SeqUpTo(Names, MaxCols),
             insert_values \in SeqUpTo(SeqUpTo(ValueSet, MaxCols), MaxRows) :
            request = [op |-> "insert", into_clause |-> into_clause,
                       insert_columns |-> insert_columns,
                       insert_values |-> insert_values]
       \/ \E table_name \in Names :
            request = [op |-> "delete", table_name |-> table_name]
       \/ \E table_name \in Names :
            request = [op |-> "update", table_name |-> table_name]

Pending(op) == builder = NoBuilder /\ request.op = op

CreateTable ==
    /\ Pending("create_table")
    /\ builder' = create_table(self, request.name)
    /\ UNCHANGED <<self, request>>

CreateTrigger ==
    /\ Pending("create_trigger")
    /\ builder' = create_trigger(self, request.name, request.table_name,
                                 request.point_in_time, request.operation)
    /\ UNCHANGED <<self, request>>

CreateIndex ==
    /\ Pending("create_index")
    /\ builder' = create_index(self, request.name, request.table_name)
    /\ UNCHANGED <<self, request>>

DropTable ==
    /\ Pending("drop_table")
    /\ builder' = drop_table(self, request.name)
    /\ UNCHANGED <<self, request>>

AlterTable ==
    /\ Pending("alter_table")
    /\ builder' = alter_table(self, request.name, request.operation)
    /\ UNCHANGED <<self, request>>

CreateColumn ==
    /\ Pending("create_column")
    /\ builder' = create_column(self, request.table_name, request.name,
                                request.data_type, request.annotations)
    /\ UNCHANGED <<self, request>>

Select ==
    /\ Pending("select")
    /\ builder' = select(self, request.columns, request.from_clause)
    /\ UNCHANGED <<self, request>>

Insert ==
    /\ Pending("insert")
    /\ builder' = insert(self, request.into_clause, request.insert_columns,
                         request.insert_values)
    /\ UNCHANGED <<self, request>>

Delete ==
    /\ Pending("delete")
    /\ builder' = delete(self, request.table_name)
    /\ UNCHANGED <<self, request>>

Update ==
    /\ Pending("update")
    /\ builder' = update(self, request.table_name)
    /\ UNCHANGED <<self, request>>

Next ==
    \/ CreateTable
    \/ CreateTrigger
    \/ CreateIndex
    \/ DropTable
    \/ AlterTable
    \/ CreateColumn
    \/ Select
    \/ Insert
    \/ Delete
    \/ Update

Spec == Init /\ [][Next]_vars

\* ---------------------------------------------------------------- properties
Built(op) == builder # NoBuilder /\ request.op = op

\* the annotations held by a column builder, unwrapped
Held == [i \in 1..Len(builder.data.annotations) |->
            builder.data.annotations[i].annotation]

IsPk(x) == eq_shallow(x, PrimaryKey)

RECURSIVE Count(_, _)
Count(s, x) ==
    IF s = <<>> THEN 0
    ELSE (IF Head(s) = x THEN 1 ELSE 0) + Count(Tail(s), x)

RECURSIVE NonPk(_)
NonPk(s) ==
    IF s = <<>> THEN <<>>
    ELSE IF IsPk(Head(s)) THEN NonPk(Tail(s))
         ELSE <<Head(s)>> \o NonPk(Tail(s))

\* the dialect a builder's variant stands for
DialectOf(variant) ==
    CASE variant \in {"SQLite", "Sqlite"} -> "SQLite"
      [] variant = "MySQL" -> "MySQL"
      [] variant = "Postgres" -> "Postgres"

DialectBuilders ==
    {"create_table", "create_index", "drop_table", "alter_table",
     "create_column", "select", "insert", "delete", "update"}

LookupBuilders ==
    {"create_table", "alter_table", "select", "insert", "delete", "update"}

\* C1: in the annotation list held by the column builder that create_column
\* returns, every PrimaryKey annotation stands before every annotation that is
\* not a PrimaryKey, for every dialect and every input list.
C1_PrimaryKeyFirst ==
    Built("create_column") =>
        \A i \in 1..Len(Held), j \in 1..Len(Held) :
            (IsPk(Held[j]) /\ ~IsPk(Held[i])) => j < i

\* C1 witness: an input with a non-PrimaryKey first and two PrimaryKeys after
\* it, whose builder holds the three annotations with the PrimaryKeys in front.
C1_Witness ==
    /\ Built("create_column")
    /\ Len(request.annotations) = 3
    /\ ~IsPk(request.annotations[1])
    /\ IsPk(request.annotations[2]) /\ IsPk(request.annotations[3])
    /\ Len(Held) = 3
    /\ IsPk(Held[1]) /\ IsPk(Held[2]) /\ ~IsPk(Held[3])

\* C2: the annotation list held by the column builder is a permutation of the
\* input list (same length, every annotation as often as in the input), for
\* every dialect.
C2_Permutation ==
    Built("create_column") =>
        /\ Len(Held) = Len(request.annotations)
        /\ \A x \in AnnotationSet :
               Count(Held, x) = Count(request.annotations, x)

\* C3: the non-PrimaryKey annotations of the input appear in the builder's
\* list in the same relative order as in the input.
C3_StableOrder ==
    Built("create_column") => NonPk(Held) = NonPk(request.annotations)

\* C4: the builder returned by each of the nine dialect-dispatching entry
\* points has the dialect variant of the DBImpl value it was called on.
C4_DialectKept ==
    \A op \in DialectBuilders :
        Built(op) => DialectOf(builder.variant) = self

\* C4 witness: a select builder of the Postgres variant built on Postgres.
C4_Witness ==
    /\ Built("select")
    /\ self = "Postgres"
    /\ builder.variant = "Postgres"

\* C5 (as claimed): the builder that create_trigger returns tells the dialect
\* it was created for: the same call on another DBImpl variant yields a
\* different builder.
C5_TriggerDialectRecoverable ==
    Built("create_trigger") =>
        \A d \in DBImpl \ {self} : Call(d, request) # builder

\* C5 (amended): the nine other entry points return a builder from which the
\* dialect is recoverable (the same call on another variant yields a different
\* builder), while create_trigger returns the same builder on every variant.
C5_DialectRecoverableExceptTrigger ==
    /\ \A op \in DialectBuilders :
           Built(op) => \A d \in DBImpl \ {self} : Call(d, request) # builder
    /\ Built("create_trigger") =>
           \A d \in DBImpl : Call(d, request) = builder

\* C5 witness: a trigger builder made on MySQL that equals the one the same
\* call makes on SQLite.
C5_Witness ==
    /\ Built("create_trigger")
    /\ self = "MySQL"
    /\ Call("SQLite", request) = builder

\* rows that the Insert contract calls malformed
Mismatched(r) ==
    \/ r.insert_values = <<>>
    \/ \E i \in 1..Len(r.insert_values) :
           Len(r.insert_values[i]) # Len(r.insert_columns)

\* C6 (as claimed): insert called with no row, or with a row whose length
\* differs from the column count, does not return a builder carrying those rows.
C6_InsertRejectsMismatch ==
    (Built("insert") /\ Mismatched(request)) =>
        (builder.impl # "InsertImpl"
         \/ builder.data.row_values # request.insert_values)

\* C6 (amended): insert checks nothing: it always returns an Insert builder of
\* the caller's dialect that carries the column list and the rows exactly as
\* passed, also when there is no row or a row's length differs from the column
\* count.
C6_InsertCarriesRowsUnchecked ==
    Built("insert") =>
        /\ builder.impl = "InsertImpl"
        /\ builder.data.columns = request.insert_columns
        /\ builder.data.row_values = request.insert_values

\* C6 witness: an Insert builder holding a one-value row for two columns.
C6_Witness ==
    /\ Built("insert")
    /\ Len(request.insert_columns) = 2
    /\ Len(request.insert_values) = 1
    /\ Len(request.insert_values[1]) = 1
    /\ builder.data.row_values = request.insert_values

\* C7 (as claimed): a Select builder never holds an empty result-column list.
C7_SelectColumnsNonEmpty ==
    Built("select") =>
        (builder.impl = "SelectImpl" => builder.data.resulting_columns # <<>>)

\* C7 (amended): select checks nothing: it always returns a Select builder
\* holding the from-clause and the column list exactly as passed, also when the
\* column list is empty.
C7_SelectCarriesColumnsUnchecked ==
    Built("select") =>
        /\ builder.impl = "SelectImpl"
        /\ builder.data.from_clause = request.from_clause
        /\ builder.data.resulting_columns = request.columns

\* C7 witness: a Select builder with zero result columns.
C7_Witness ==
    /\ Built("select")
    /\ request.columns = <<>>
    /\ builder.impl = "SelectImpl"
    /\ builder.data.resulting_columns = <<>>

\* C8: every fresh builder with a parameter lookup starts with the lookup
\* empty, and select, delete and update start without a WHERE clause.
C8_FreshLookupEmpty ==
    /\ \A op \in LookupBuilders : Built(op) => builder.data.lookup = <<>>
    /\ \A op \in {"select", "delete", "update"} :
           Built(op) => builder.data.where_clause = None

\* C8 witness: a fresh Delete builder with no WHERE clause and no parameter.
C8_Witness ==
    /\ Built("delete")
    /\ builder.data.where_clause = None
    /\ Len(builder.data.lookup) = 0

\* C9: every optional flag or clause of a fresh builder is unset.
C9_FreshOptionsUnset ==
    /\ Built("create_table") => builder.data.if_not_exists = FALSE
    /\ Built("create_index") =>
           /\ builder.data.unique = FALSE
           /\ builder.data.if_not_exists = FALSE
           /\ builder.data.condition = None
    /\ Built("drop_table") => builder.data.if_exists = FALSE
    /\ Built("create_trigger") =>
           /\ builder.data.if_not_exists = FALSE
           /\ builder.data.for_each_row = FALSE
    /\ Built("select") =>
           /\ builder.data.distinct = FALSE
           /\ builder.data.limit = None
           /\ builder.data.offset = None
           /\ builder.data.where_clause = None
    /\ Built("update") =>
           /\ builder.data.where_clause = None
           /\ builder.data.updates = <<>>

\* C9 witness: a fresh index builder on MySQL, not unique and unconditional.
C9_Witness ==
    /\ Built("create_index")
    /\ self = "MySQL"
    /\ builder.data.unique = FALSE
    /\ builder.data.condition = None

\* C10: a fresh Insert builder and a fresh Update builder both have the
\* conflict policy OnConflict::ABORT, for every dialect.
C10_DefaultOnConflictAbort ==
    \A op \in {"insert", "update"} : Built(op) => builder.data.on_conflict = ABORT

\* C10 witness: a fresh Update builder on Postgres with policy ABORT.
C10_Witness ==
    /\ Built("update")
    /\ self = "Postgres"
    /\ builder.data.on_conflict = ABORT
====
